---- MODULE Spec2Model ----
(***************************************************************************)
(* Model of the stock-analyzer backend (src/backend/index.js): an Express  *)
(* server that proxies a market-data provider and a generative-AI provider.*)
(*                                                                         *)
(* Strings that the code inspects character by character (path parameters, *)
(* the range query value, tickers) are sequences of one-character strings. *)
(* AI reply texts are sequences of tokens (words, punctuation, whitespace).*)
(* Upstream services are the environment: every reply they can give is a   *)
(* nondeterministic input of the action that receives it.                  *)
(***************************************************************************)
EXTENDS Integers, Sequences, FiniteSets, TLC

VARIABLES
    route,      \* handler serving the inbound request, "none" before it arrives
    pc,         \* position of the handler
    symbol,     \* req.params.symbol
    query,      \* req.query.range
    calls,      \* upstream calls issued for this request, in issue order
    snapshot,   \* outcome of the quote handler's snapshot request
    articles,   \* polygonRes.data.results of a news handler
    subtask,    \* per-article / per-sector sub-task of a Promise.all
    responses,  \* HTTP responses sent for this request, in order
    tickers,    \* response.data.tickers of a movers request
    hits,       \* rate limiter: requests counted per client IP in its current window
    admitted,   \* per IP: requests of the window passed on to a handler
    refused,    \* per IP: requests of the window answered 429
    inflight,   \* admitted requests whose handler is suspended on upstream
    upstream,   \* latest upstream result the handler received
    chatLog,    \* completed POST /api/ai/chat exchanges, oldest first
    marketStatus, \* App state: marketStatus
    quickPicks, \* App state: quickPicks
    indices,    \* App state: indices
    sectors,    \* App state: sectors
    topStocks,  \* App state: topGainers, topLosers, mostActive
    topNews,    \* App state: topNews
    fetches,    \* dashboard requests: "unsent", "pending", "ok" or "failed" per request
    indexResults, \* fetchAllData: indexResults
    fpc,        \* position of fetchAllData
    path,       \* the path segment after /api/news/ of a news request
    selectedPeriod, \* StockDetail state: selectedPeriod
    chartData,  \* StockDetail state: chartData
    chartFetches, \* StockDetail: the chart requests made so far, in issue order
    selections  \* StockDetail: number of period buttons clicked

dashboardVars == <<marketStatus, quickPicks, indices, sectors, topStocks, topNews,
                   fetches, indexResults, fpc>>

detailVars == <<selectedPeriod, chartData, chartFetches, selections>>

vars == <<route, pc, symbol, query, calls, snapshot, articles, subtask, responses, tickers,
          hits, admitted, refused, inflight, upstream, chatLog, dashboardVars, path,
          detailVars>>

\* ------------------------------------------------------------------ bounds
MaxArticles == 6
FullReplyArticles == 2
MaxTickers == 8
MaxInFlight == 2
MaxOver == 2
MaxChats == 2
MaxSelections == 3
MaxSegment == 3

\* ----------------------------------------------------------------- strings
Undefined == <<"undefined">>
NoTicker == <<"none">>

\* JSON values of a numeric field: a number, null, or the field is absent
\* (undefined; res.json omits such a field).
Missing == -1
Null == -2

\* a ?? b
Nullish_NoDefault(a, b) == a

Nullish(a, b) == IF a = Missing \/ a = Null THEN b ELSE a

\* a || b, for a number, null or undefined a
Falsy(a) == a = Missing \/ a = Null \/ a = 0
Or(a, b) == IF Falsy(a) THEN b ELSE a

\* Number(x); NaN is serialised as null
NumberOf(x) == IF x = Null THEN 0 ELSE IF x = Missing THEN Null ELSE x

LowerLetters == <<"a", "b", "d", "l", "m", "o", "p", "t", "w", "y">>
UpperLetters == <<"A", "B", "D", "L", "M", "O", "P", "T", "W", "Y">>
DigitChars == {"1", "5", "6"}

IsLower(c) == \E i \in 1..Len(LowerLetters) : LowerLetters[i] = c
IsUpper(c) == \E i \in 1..Len(UpperLetters) : UpperLetters[i] = c

toUpperCaseChar(c) ==
    IF IsLower(c)
    THEN UpperLetters[CHOOSE i \in 1..Len(LowerLetters) : LowerLetters[i] = c]
    ELSE c

\* the symbol used as typed, .toUpperCase() forgotten
toUpperCase_Identity(s) == s

toUpperCase(s) == [i \in 1..Len(s) |-> toUpperCaseChar(s[i])]

\* ------------------------------------------------------------- validation
isAlphanumeric(s) ==
    /\ Len(s) > 0
    /\ \A i \in 1..Len(s) : IsLower(s[i]) \/ IsUpper(s[i]) \/ s[i] \in DigitChars

isLength(s) == Len(s) >= 1 /\ Len(s) <= 10

\* validationResult(req).array(): one entry per failed validator, chain order;
\* withMessage() names the validator right before it (isLength).
validationResult(s) ==
    (IF isAlphanumeric(s) THEN <<>> ELSE <<"Invalid value">>)
    \o (IF isLength(s) THEN <<>> ELSE <<"Invalid stock symbol">>)

\* ------------------------------------------------------------ environment
LongSymbol == <<"A", "A", "A", "A", "A", "A", "A", "A", "A", "A", "A">>
Symbols == { <<"a", "b">>, <<"A", "B">>, <<"A", "1">>, <<"a", "-">>, LongSymbol }
NewsSymbols == { <<"a", "b">>, <<"a", "-">> }

UpstreamTickers == { <<"A", "B">>, <<"A", "b">>, <<"A", "1">>, Undefined }

\* A failed upstream call: an HTTP error status, or 0 for no response at all.
FailStatuses == {404, 500, 0}

\* An aggregate bar of the snapshot (day, min): absent, or an object whose
\* fields are numbers, null or absent.
Bar(x) == [absent |-> FALSE, o |-> x, h |-> x, l |-> x, c |-> x, v |-> x]
AbsentBar == [absent |-> TRUE, o |-> Missing, h |-> Missing, l |-> Missing,
              c |-> Missing, v |-> Missing]

\* The bars over vals that are uniform or differ from Bar(base) in one field.
Bars(vals, base) ==
    {AbsentBar} \cup
    { b \in [absent : {FALSE}, o : vals, h : vals, l : vals, c : vals, v : vals] :
        \/ b = Bar(b.o)
        \/ Cardinality({f \in {"o", "h", "l", "c", "v"} : b[f] # base}) = 1 }

DayBars == Bars({Missing, Null, 0, 3}, 3)
MinBars == Bars({Missing, 0, 7}, 7)

\* todaysChange, todaysChangePerc and prevDay (absent, or an object with c)
Extras(x, pd) == [todaysChange |-> x, todaysChangePerc |-> x,
                  prevDayAbsent |-> pd, prevDayC |-> IF pd THEN Missing ELSE x]
SnapshotExtras == { Extras(x, FALSE) : x \in {Missing, Null, 0, 5} } \cup {Extras(5, TRUE)}

\* The numeric content of a snapshot: every pair of bars with full extras,
\* and every extras with full bars.
SnapshotNumbers ==
    { [day |-> d, min |-> m, extras |-> Extras(5, FALSE)] : d \in DayBars, m \in MinBars }
    \cup { [day |-> Bar(3), min |-> Bar(7), extras |-> e] : e \in SnapshotExtras }

NoNumbers == [day |-> AbsentBar, min |-> AbsentBar, extras |-> Extras(Missing, TRUE)]

SnapshotOutcomes ==
    [ok : {TRUE}, status : {200}, payload : {"absent", "empty"}, ticker : {Undefined},
     num : {NoNumbers}]
    \cup [ok : {TRUE}, status : {200}, payload : {"full"}, ticker : UpstreamTickers,
          num : {[day |-> Bar(3), min |-> Bar(7), extras |-> Extras(5, FALSE)]}]
    \cup [ok : {TRUE}, status : {200}, payload : {"full"}, ticker : {<<"A", "B">>},
          num : SnapshotNumbers]
    \cup [ok : {FALSE}, status : FailStatuses, payload : {"absent"}, ticker : {Undefined},
          num : {NoNumbers}]

\* metaRes.data?.results: absent, or an object whose name, primary_exchange,
\* description and numeric fields are each present, null or absent.
MetaFields(x, y) ==
    [name |-> IF x \in {Missing, Null} THEN Undefined ELSE <<"N">>,
     primary_exchange |-> IF x \in {Missing, Null} THEN "" ELSE "XNYS",
     description |-> IF x \in {Missing, Null} THEN "" ELSE "text",
     average_volume |-> x, market_cap |-> y, week_52_high |-> x, week_52_low |-> y]

MetaResults ==
    { MetaFields(x, x) : x \in {Missing, Null, 0, 9} } \cup {MetaFields(9, Missing)}

MetaOutcomes ==
    [ok : {TRUE}, status : {200}, results : {"absent"}, fields : {MetaFields(Missing, Missing)}]
    \cup [ok : {TRUE}, status : {200}, results : {"present"}, fields : MetaResults]
    \cup [ok : {FALSE}, status : FailStatuses, results : {"absent"},
          fields : {MetaFields(Missing, Missing)}]

NoUpstream == [ok |-> FALSE, status |-> 0]

NoSnapshot == [ok |-> FALSE, status |-> 0, payload |-> "absent", ticker |-> Undefined,
               num |-> NoNumbers]

\* One upstream request: the API, the ticker in its URL, the index of the
\* article or sector it belongs to, and the aggregates-URL parts.
Call(a, t, i) ==
    [api |-> a, ticker |-> t, idx |-> i,
     multiplier |-> 0, timespan |-> "", from |-> 0, to |-> 0]

\* res.status(st).json({ error: msg }) / res.json(body)
NoData == <<>>
RespondError(st, msg) ==
    Append(responses, [status |-> st, error |-> msg, symbol |-> Undefined, items |-> <<>>,
                       data |-> NoData])
RespondQuote(sym, quote) ==
    Append(responses, [status |-> 200, error |-> "", symbol |-> sym, items |-> <<>>,
                       data |-> quote])
RespondList(items) ==
    Append(responses, [status |-> 200, error |-> "", symbol |-> Undefined, items |-> items,
                       data |-> NoData])
RespondData(body) ==
    Append(responses, [status |-> 200, error |-> "", symbol |-> Undefined, items |-> <<>>,
                       data |-> body])

\* --------------------------------------------------------- GET /api/quote
\* catch block of the quote handler
QuoteCatch(err) ==
    IF err.status = 404
    THEN RespondError(404, "Stock not found")
    ELSE RespondError(500, "Failed to fetch quote from Polygon")

QuoteRequest(s) ==
    /\ route = "none"
    /\ route' = "quote"
    /\ symbol' = s
    /\ IF validationResult(s) # <<>>
       THEN /\ responses' = RespondError(400, validationResult(s)[1])
            /\ pc' = "done"
            /\ calls' = calls
       ELSE /\ calls' = Append(calls, Call("snapshot", toUpperCase(s), 0))
            /\ pc' = "awaitSnapshot"
            /\ responses' = responses
    /\ UNCHANGED <<query, snapshot, subtask, articles, tickers, hits, admitted, refused, inflight,
                   upstream, path, detailVars, chatLog, dashboardVars>>

\* a quote handler that issues the snapshot request a second time after a failure
SnapshotReply_Retry(o) ==
    /\ route = "quote" /\ pc = "awaitSnapshot"
    /\ snapshot' = o
    /\ IF o.ok
       THEN /\ calls' = Append(calls, Call("meta", toUpperCase(symbol), 0))
            /\ pc' = "awaitMeta"
            /\ responses' = responses
       ELSE IF Len(calls) < 2
       THEN /\ calls' = Append(calls, Call("snapshot", toUpperCase(symbol), 0))
            /\ pc' = pc
            /\ responses' = responses
       ELSE /\ responses' = QuoteCatch(o)
            /\ pc' = "done"
            /\ calls' = calls
    /\ UNCHANGED <<route, symbol, query, articles, subtask, tickers, hits, admitted, refused, inflight,
                   upstream, path, detailVars, chatLog, dashboardVars>>

SnapshotReply(o) ==
    /\ route = "quote" /\ pc = "awaitSnapshot"
    /\ snapshot' = o
    /\ IF o.ok
       THEN /\ calls' = Append(calls, Call("meta", toUpperCase(symbol), 0))
            /\ pc' = "awaitMeta"
            /\ responses' = responses
       ELSE /\ responses' = QuoteCatch(o)
            /\ pc' = "done"
            /\ calls' = calls
    /\ UNCHANGED <<route, symbol, query, subtask, articles, tickers, hits, admitted, refused, inflight,
                   upstream, path, detailVars, chatLog, dashboardVars>>

\* snapshot.day || {}
OrEmpty(bar) == IF bar.absent THEN Bar(Missing) ELSE bar

\* The Quote assembled from the snapshot and the metadata results.
Quote(snap, meta) ==
    LET day == OrEmpty(snap.num.day)
        min == OrEmpty(snap.num.min)
        x == snap.num.extras
        open == Or(Or(day.o, min.o), 0)
        high == Or(Or(day.h, min.h), 0)
        low == Or(Or(day.l, min.l), 0)
        close == Or(Or(day.c, min.c), 0)
        volume == Or(Or(day.v, min.v), 0)
        md(f) == IF meta.results = "absent" THEN Missing ELSE meta.fields[f]
    IN  [name |-> IF meta.results = "absent" \/ meta.fields.name = Undefined
                  THEN snap.ticker ELSE meta.fields.name,
         exchange |-> IF meta.results = "absent" \/ meta.fields.primary_exchange = ""
                      THEN "NASDAQ" ELSE meta.fields.primary_exchange,
         price |-> NumberOf(close),
         volume |-> volume,
         change |-> Nullish(x.todaysChange, 0),
         changePercent |-> Nullish(x.todaysChangePerc, 0),
         open |-> open,
         prevClose |-> Nullish(IF x.prevDayAbsent THEN Missing ELSE x.prevDayC, 0),
         high |-> high,
         low |-> low,
         avgVolume |-> Nullish(md("average_volume"), Null),
         marketCap |-> Nullish(md("market_cap"), Null),
         week52High |-> Nullish(md("week_52_high"), Null),
         week52Low |-> Nullish(md("week_52_low"), Null),
         description |-> IF meta.results = "absent" \/ meta.fields.description = ""
                         THEN "null" ELSE meta.fields.description]

\* a quote handler that treats the metadata as optional
MetaReply_Optional(o) ==
    /\ route = "quote" /\ pc = "awaitMeta"
    /\ upstream' = o
    /\ pc' = "done"
    /\ responses' =
         IF snapshot.payload # "full"
         THEN RespondError(404, "Stock not found or no snapshot data available")
         ELSE RespondQuote(snapshot.ticker, Quote(snapshot, o))
    /\ UNCHANGED <<route, symbol, query, calls, snapshot, subtask, articles, tickers,
                   hits, admitted, refused, inflight,
                   path, detailVars, chatLog, dashboardVars>>

MetaReply(o) ==
    /\ route = "quote" /\ pc = "awaitMeta"
    /\ upstream' = o
    /\ pc' = "done"
    /\ responses' =
         IF ~o.ok THEN QuoteCatch(o)
         ELSE IF snapshot.payload # "full"
         THEN RespondError(404, "Stock not found or no snapshot data available")
         ELSE RespondQuote(snapshot.ticker, Quote(snapshot, o))
    /\ UNCHANGED <<route, symbol, query, calls, snapshot, subtask, articles, tickers,
                   hits, admitted, refused, inflight,
                   path, detailVars, chatLog, dashboardVars>>

\* --------------------------------------------------------- GET /api/chart
\* Instants are whole seconds since the epoch (the code counts milliseconds;
\* the factor 1000 is divided out to stay within 32-bit integers).
SecPerDay == 24 * 60 * 60

POLYGON_INTERVALS ==
    { [key |-> <<"1", "D">>, multiplier |-> 1, timespan |-> "minute", from |-> 1],
      [key |-> <<"1", "W">>, multiplier |-> 15, timespan |-> "minute", from |-> 7],
      [key |-> <<"1", "M">>, multiplier |-> 1, timespan |-> "day", from |-> 30],
      [key |-> <<"6", "M">>, multiplier |-> 1, timespan |-> "day", from |-> 180],
      [key |-> <<"1", "Y">>, multiplier |-> 1, timespan |-> "day", from |-> 365],
      [key |-> <<"A", "L", "L">>, multiplier |-> 1, timespan |-> "day", from |-> 1825] }

\* POLYGON_INTERVALS[range] || POLYGON_INTERVALS["1D"]
IntervalFor(range) ==
    IF \E r \in POLYGON_INTERVALS : r.key = range
    THEN CHOOSE r \in POLYGON_INTERVALS : r.key = range
    ELSE CHOOSE r \in POLYGON_INTERVALS : r.key = <<"1", "D">>

\* the range looked up as typed, .toUpperCase() forgotten
RangeOf_CaseSensitive(q) == IF q = Undefined \/ q = <<>> THEN <<"1", "D">> ELSE q

\* (req.query.range || "1D").toUpperCase(); a missing and an empty value are falsy
RangeOf(q) == toUpperCase(IF q = Undefined \/ q = <<>> THEN <<"1", "D">> ELSE q)

\* date.toISOString().split("T")[0]: the UTC calendar day holding instant t
\* as a day number
IsoDate(t) == t \div SecPerDay

ChartCall(s, q, now) ==
    LET row == IntervalFor(RangeOf(q))
        toDate == now
        fromDate == toDate - row.from * 24 * 60 * 60
    IN  [api |-> "aggs", ticker |-> toUpperCase(s), idx |-> 0,
         multiplier |-> row.multiplier, timespan |-> row.timespan,
         from |-> IsoDate(fromDate), to |-> IsoDate(toDate)]

RangeQueries ==
    { Undefined, <<>>, <<"1", "d">>, <<"1", "D">>, <<"1", "w">>, <<"1", "W">>,
      <<"1", "m">>, <<"1", "M">>, <<"6", "m">>, <<"6", "M">>, <<"1", "y">>,
      <<"1", "Y">>, <<"a", "l", "l">>, <<"A", "l", "L">>, <<"A", "L", "L">>,
      <<"5", "Y">>, <<"1">>, <<"1", "D", "D">> }

EpochDays == {19000, 20600}
DayOffsets == {0, 1, 12 * 60 * 60, SecPerDay - 1}
Times == { d * SecPerDay + off : d \in EpochDays, off \in DayOffsets }

\* polygonRes.data?.results: absent, or a list of bars (named in upstream order)
ChartOutcomes ==
    [ok : {TRUE}, status : {200}, results : {Undefined, <<>>, <<"bar1">>, <<"bar1", "bar2", "bar3">>}]
    \cup [ok : {FALSE}, status : FailStatuses, results : {Undefined}]

ChartRequest(s, q, now) ==
    /\ route = "none"
    /\ route' = "chart"
    /\ symbol' = s
    /\ query' = q
    /\ calls' = Append(calls, ChartCall(s, q, now))
    /\ pc' = "awaitChart"
    /\ UNCHANGED <<snapshot, subtask, responses, articles, tickers, hits, admitted, refused, inflight,
                   upstream, path, detailVars, chatLog, dashboardVars>>

\* a handler that answers an upstream 404 with an empty series, as search does
ChartReply_404Empty(o) ==
    /\ route = "chart" /\ pc = "awaitChart"
    /\ upstream' = o
    /\ pc' = "done"
    /\ responses' =
         IF ~o.ok /\ o.status = 404 THEN RespondList(<<>>)
         ELSE IF ~o.ok THEN RespondError(500, "Failed to fetch chart data")
         ELSE IF o.results = Undefined \/ Len(o.results) = 0 THEN RespondList(<<>>)
         ELSE RespondList(o.results)
    /\ UNCHANGED <<route, symbol, query, calls, snapshot, subtask, articles, tickers,
                   hits, admitted, refused, inflight,
                   path, detailVars, chatLog, dashboardVars>>

ChartReply(o) ==
    /\ route = "chart" /\ pc = "awaitChart"
    /\ upstream' = o
    /\ pc' = "done"
    /\ responses' =
         IF ~o.ok THEN RespondError(500, "Failed to fetch chart data")
         ELSE IF o.results = Undefined \/ Len(o.results) = 0 THEN RespondList(<<>>)
         ELSE RespondList(o.results)
    /\ UNCHANGED <<route, symbol, query, calls, snapshot, subtask, articles, tickers,
                   hits, admitted, refused, inflight,
                   path, detailVars, chatLog, dashboardVars>>

\* ------------------------------------------------- GET /api/search/:query
SearchQueries == { <<"a", "p">>, <<"T", "S", "L", "A">> }

\* response.data.results: absent, or the matches in upstream order
SearchOutcomes ==
    [ok : {TRUE}, status : {200},
     results : {Undefined, <<>>, <<"hit1">>, <<"hit1", "hit2">>}]
    \cup [ok : {FALSE}, status : FailStatuses, results : {Undefined}]

SearchRequest(q) ==
    /\ route = "none"
    /\ route' = "search"
    /\ symbol' = q
    /\ calls' = Append(calls, Call("search", q, 0))
    /\ pc' = "awaitSearch"
    /\ UNCHANGED <<query, snapshot, subtask, responses, articles, tickers, hits, admitted,
                   refused, inflight, upstream, path, detailVars, chatLog, dashboardVars>>

\* a handler without the 404 branch in its catch block
SearchReply_No404(o) ==
    /\ route = "search" /\ pc = "awaitSearch"
    /\ upstream' = o
    /\ pc' = "done"
    /\ responses' =
         IF o.ok THEN RespondList(IF o.results = Undefined THEN <<>> ELSE o.results)
         ELSE RespondError(500, "Search failed")
    /\ UNCHANGED <<route, symbol, query, calls, snapshot, subtask, articles, tickers,
                   hits, admitted, refused, inflight, path, detailVars, chatLog, dashboardVars>>

SearchReply(o) ==
    /\ route = "search" /\ pc = "awaitSearch"
    /\ upstream' = o
    /\ pc' = "done"
    /\ responses' =
         IF o.ok THEN RespondList(IF o.results = Undefined THEN <<>> ELSE o.results)
         ELSE IF o.status = 404 THEN RespondList(<<>>)
         ELSE RespondError(500, "Search failed")
    /\ UNCHANGED <<route, symbol, query, calls, snapshot, subtask, articles, tickers,
                   hits, admitted, refused, inflight, path, detailVars, chatLog, dashboardVars>>

\* ---------------------------------------------------------- GET /api/news
\* AI reply texts are token sequences; these tokens are whitespace.
Whitespace == {" ", "\n"}

RECURSIVE trimStart(_)
trimStart(t) ==
    IF t # <<>> /\ Head(t) \in Whitespace THEN trimStart(Tail(t)) ELSE t

RECURSIVE trimEnd(_)
trimEnd(t) ==
    IF t # <<>> /\ t[Len(t)] \in Whitespace THEN trimEnd(SubSeq(t, 1, Len(t) - 1)) ELSE t

trim(t) == trimEnd(trimStart(t))

Neutral == <<"Neutral">>

\* A generateContent result: no candidate (or no content/parts) at all, a first
\* part without a text field, or a first part with a text.
AIReply(k, t) == [kind |-> k, text |-> t]

AllReplies ==
    { AIReply("noCandidates", <<>>), AIReply("noText", <<>>),
      AIReply("text", <<"Positive">>), AIReply("text", <<"Positive", "!">>),
      AIReply("text", <<" ", "Negative", "\n">>),
      AIReply("text", <<"Very", " ", "Positive">>),
      AIReply("text", <<>>), AIReply("text", <<" ", "\n">>) }

BasicReplies ==
    { AIReply("text", <<"Positive">>), AIReply("text", <<" ", "Negative", "\n">>) }

\* Replies the AI may give for the i-th headline of a batch.
RepliesFor(i) == IF i <= FullReplyArticles THEN AllReplies ELSE BasicReplies

\* response.candidates?.[0]?.content?.parts?.[0]?.text.trim() || "Neutral";
\* .trim() of a missing text throws into the sub-task's catch, which yields
\* "Neutral" as well.
SentimentOf(r) ==
    IF r.kind = "noCandidates" THEN Neutral
    ELSE IF r.kind = "noText" THEN Neutral
    ELSE IF trim(r.text) = <<>> THEN Neutral
    ELSE trim(r.text)

\* a sub-task whose catch block reports the failure instead of falling back
Analyze_NoFallback(i, st) ==
    [title |-> articles[i],
     sentiment |-> IF st.state = "failed" THEN <<"Error">> ELSE SentimentOf(st.reply)]

\* The value one settled sub-task of articles.map(async ...) returns.
Analyze(i, st) ==
    [title |-> articles[i],
     sentiment |-> IF st.state = "failed" THEN Neutral ELSE SentimentOf(st.reply)]

Pending == [state |-> "pending", reply |-> AIReply("noCandidates", <<>>)]

Settled(tasks) == \A i \in 1..Len(tasks) : tasks[i].state # "pending"

\* polygonRes.data.results: absent, or the articles (numbered in upstream order)
NewsOutcomes ==
    [ok : {TRUE}, status : {200}, results : {-1} \cup (0..MaxArticles)]
    \cup [ok : {FALSE}, status : FailStatuses, results : {-1}]

\* the handler truncating the upstream list itself: articles.slice(0, 5).map(...)
AnalyzedTasks_FirstFive(arts) ==
    [i \in 1..(IF Len(arts) < 5 THEN Len(arts) ELSE 5) |-> Pending]

\* articles.map(async (article) => ...): one sub-task per article
AnalyzedTasks(arts) == [i \in 1..Len(arts) |-> Pending]

\* a handler that only looks for a missing results field
NoArticles_OnlyAbsent(results) == results < 0

\* articles = polygonRes.data.results || []; !articles || articles.length === 0
NoArticles(results) == results <= 0

NewsRequest(r, s) ==
    /\ route = "none"
    /\ r \in {"newsTop", "newsSymbol"}
    /\ route' = r
    /\ symbol' = s
    /\ calls' = Append(calls,
                  Call("news", IF r = "newsTop" THEN NoTicker ELSE toUpperCase(s), 0))
    /\ pc' = "awaitNews"
    /\ UNCHANGED <<query, snapshot, subtask, responses, articles, tickers,
                   hits, admitted, refused, inflight,
                   upstream, detailVars, chatLog, dashboardVars>>

\* The routes under /api/news/ in the order they are registered.
NewsRoutes ==
    << [handler |-> "newsTop", literal |-> TRUE, pattern |-> <<"t", "o", "p">>],
       [handler |-> "newsSymbol", literal |-> FALSE, pattern |-> <<":symbol">>] >>

\* Does the route match the path segment? The app keeps the router's default
\* settings, under which a literal segment is compared without regard to case
\* and a parameter takes any non-empty segment.
Matches(rt, seg) ==
    IF rt.literal THEN toUpperCase(seg) = toUpperCase(rt.pattern) ELSE seg # <<>>

\* The first registered route that matches handles the request.
RouteFor(seg) ==
    NewsRoutes[CHOOSE k \in 1..Len(NewsRoutes) :
                 /\ Matches(NewsRoutes[k], seg)
                 /\ \A j \in 1..(k - 1) : ~Matches(NewsRoutes[j], seg)]

\* GET /api/news/<seg> arrives.
NewsDispatch(seg) ==
    /\ seg # <<>>
    /\ path' = seg
    /\ NewsRequest(RouteFor(seg).handler,
                   IF RouteFor(seg).literal THEN Undefined ELSE seg)

NewsReply(o) ==
    /\ route \in {"newsTop", "newsSymbol"} /\ pc = "awaitNews"
    /\ upstream' = o
    /\ IF ~o.ok
       THEN /\ responses' = RespondError(500,
                   IF route = "newsTop" THEN "Failed to fetch top news"
                   ELSE "Failed to fetch news for this ticker")
            /\ pc' = "done"
            /\ UNCHANGED <<calls, articles, subtask>>
       ELSE IF NoArticles(o.results)
       THEN /\ responses' = RespondError(404, "No news found for this ticker")
            /\ pc' = "done"
            /\ UNCHANGED <<calls, articles, subtask>>
       ELSE /\ articles' = [i \in 1..o.results |-> i]
            /\ subtask' = AnalyzedTasks(articles')
            /\ calls' = calls \o [i \in 1..Len(subtask') |-> Call("ai", NoTicker, i)]
            /\ pc' = "awaitAll"
            /\ responses' = responses
    /\ UNCHANGED <<route, symbol, query, snapshot, tickers, hits, admitted, refused, inflight,
                   path, detailVars, chatLog, dashboardVars>>

\* One sub-task settles; Promise.all resolves, and the handler answers, when
\* the last one has.
SentimentSettle(i, st) ==
    /\ route \in {"newsTop", "newsSymbol"} /\ pc = "awaitAll"
    /\ i \in 1..Len(subtask) /\ subtask[i].state = "pending"
    /\ subtask' = [subtask EXCEPT ![i] = st]
    /\ IF Settled(subtask')
       THEN /\ responses' = RespondList([j \in 1..Len(subtask) |-> Analyze(j, subtask'[j])])
            /\ pc' = "done"
       ELSE UNCHANGED <<responses, pc,
                   upstream, path, detailVars, chatLog, dashboardVars>>
    /\ UNCHANGED <<route, symbol, query, calls, snapshot, articles, tickers,
                   hits, admitted, refused, inflight,
                   upstream, path, detailVars, chatLog, dashboardVars>>

SentimentReply(i, r) == SentimentSettle(i, [state |-> "ok", reply |-> r])

SentimentFail(i) ==
    SentimentSettle(i, [state |-> "failed", reply |-> AIReply("noCandidates", <<>>)])

\* ------------------------------------------------------- GET /api/sectors
sectorETFs ==
    << [name |-> "Technology", symbol |-> "XLK"],
       [name |-> "Healthcare", symbol |-> "XLV"],
       [name |-> "Financials", symbol |-> "XLF"],
       [name |-> "Energy", symbol |-> "XLE"],
       [name |-> "Consumer Discretionary", symbol |-> "XLY"] >>

\* A sector snapshot reply: a ticker payload with or without todaysChangePerc,
\* a body without ticker payload, or a failed request.
SectorOutcomes ==
    { [state |-> "ok", reply |-> AIReply("perc", <<>>)],
      [state |-> "ok", reply |-> AIReply("noPerc", <<>>)],
      [state |-> "ok", reply |-> AIReply("nullPerc", <<>>)],
      [state |-> "ok", reply |-> AIReply("noTicker", <<>>)],
      [state |-> "failed", reply |-> AIReply("noTicker", <<>>)] }

\* a sub-task that tolerates a missing ticker payload
SectorRejected_OnlyFailure(st) == st.state = "failed"

\* res.data.ticker.todaysChangePerc throws when the ticker payload is missing,
\* which rejects the sub-task like a failed request does.
SectorRejected(st) == st.state = "failed" \/ st.reply.kind = "noTicker"

SectorEntry(i, st) ==
    [name |-> sectorETFs[i].name,
     changePercent |->
         Nullish(IF st.reply.kind = "perc" THEN 1
                 ELSE IF st.reply.kind = "nullPerc" THEN Null ELSE Missing, 0)]

SectorsRequest ==
    /\ route = "none"
    /\ route' = "sectors"
    /\ subtask' = [i \in 1..Len(sectorETFs) |-> Pending]
    /\ calls' = calls \o [i \in 1..Len(sectorETFs) |->
                            Call("snapshot", <<sectorETFs[i].symbol>>, i)]
    /\ pc' = "awaitAll"
    /\ UNCHANGED <<symbol, query, snapshot, responses, articles, tickers,
                   hits, admitted, refused, inflight,
                   upstream, path, detailVars, chatLog, dashboardVars>>

\* a handler in which every rejected sub-task answers 500 itself
SectorReply_RespondEach(i, st) ==
    /\ route = "sectors" /\ pc = "awaitAll"
    /\ i \in 1..Len(subtask) /\ subtask[i].state = "pending"
    /\ subtask' = [subtask EXCEPT ![i] = st]
    /\ responses' =
         IF SectorRejected(st)
         THEN RespondError(500, "Failed to fetch sector data")
         ELSE IF \A j \in 1..Len(subtask) : subtask'[j].state = "ok"
         THEN RespondList([j \in 1..Len(subtask) |-> SectorEntry(j, subtask'[j])])
         ELSE responses
    /\ pc' = IF Settled(subtask') THEN "done" ELSE pc
    /\ UNCHANGED <<route, symbol, query, calls, snapshot, articles, tickers,
                   hits, admitted, refused, inflight,
                   upstream, path, detailVars, chatLog, dashboardVars>>

\* Promise.all rejects on the first rejected sub-task (the catch block answers
\* 500 while the other requests are still in flight) and resolves when all
\* five have succeeded.
SectorReply(i, st) ==
    /\ route = "sectors" /\ pc = "awaitAll"
    /\ i \in 1..Len(subtask) /\ subtask[i].state = "pending"
    /\ subtask' = [subtask EXCEPT ![i] = st]
    /\ responses' =
         IF responses # <<>> THEN responses
         ELSE IF SectorRejected(st) THEN RespondError(500, "Failed to fetch sector data")
         ELSE IF \A j \in 1..Len(subtask) : subtask'[j].state = "ok"
         THEN RespondList([j \in 1..Len(subtask) |-> SectorEntry(j, subtask'[j])])
         ELSE responses
    /\ pc' = IF Settled(subtask') THEN "done" ELSE pc
    /\ UNCHANGED <<route, symbol, query, calls, snapshot, articles, tickers,
                   hits, admitted, refused, inflight,
                   upstream, path, detailVars, chatLog, dashboardVars>>

\* ------------------- GET /api/top-gainers, /api/top-losers, /api/most-active
Volumes == {Missing, 1, 2}

\* response.data.tickers: entries named by their upstream position, each with
\* its day.v (Missing when the day object or its v is absent)
\* and a lastTrade.p and todaysChangePerc
TickerLists ==
    UNION { { [i \in 1..n |-> [ticker |-> i, v |-> f[i], p |-> 10, perc |-> 5]] :
                f \in [1..n -> Volumes] }
            : n \in 0..MaxTickers }

\* Lists of at most one entry, with every combination of absent, null and
\* present day.v, lastTrade.p and todaysChangePerc.
ShortTickerLists ==
    { <<>> } \cup
    { << [ticker |-> 1, v |-> v, p |-> q, perc |-> c] >> :
        v \in {Missing, Null, 0, 2}, q \in {Missing, Null, 0, 10}, c \in {Missing, Null, 0, 5} }

MoversOutcomes == {"tickers", "noTickers", "failed"}

\* (t) => ({ symbol: t.ticker, name: t.ticker, price: t.lastTrade?.p ?? 0,
\*           changePercent: t.todaysChangePerc ?? 0, volume: t.day?.v ?? 0 })
MoverEntry(t) ==
    [symbol |-> t.ticker, name |-> t.ticker, price |-> Nullish(t.p, 0),
     changePercent |-> Nullish(t.perc, 0), volume |-> Nullish(t.v, 0)]

\* a comparator that orders by ascending volume: a.volume - b.volume
compareVolume_Ascending(a, b) == a.volume - b.volume

\* (a, b) => b.volume - a.volume
compareVolume(a, b) == b.volume - a.volume

\* Array.prototype.sort is stable: x goes behind every element it does not
\* have to precede.
RECURSIVE insertSorted(_, _)
insertSorted(x, sorted) ==
    IF sorted = <<>> THEN <<x>>
    ELSE IF compareVolume(Head(sorted), x) <= 0
    THEN <<Head(sorted)>> \o insertSorted(x, Tail(sorted))
    ELSE <<x>> \o sorted

RECURSIVE sort(_)
sort(list) ==
    IF list = <<>> THEN <<>>
    ELSE insertSorted(list[Len(list)], sort(SubSeq(list, 1, Len(list) - 1)))

\* list.slice(0, n)
slice(list, n) == SubSeq(list, 1, IF Len(list) < n THEN Len(list) ELSE n)

MoversResult(r, list) ==
    LET mapped == [i \in 1..Len(list) |-> MoverEntry(list[i])]
    IN  IF r = "mostActive" THEN slice(sort(mapped), 7) ELSE slice(mapped, 5)

MoversRequest(r) ==
    /\ route = "none"
    /\ r \in {"topGainers", "topLosers", "mostActive"}
    /\ route' = r
    /\ calls' = Append(calls, Call(r, NoTicker, 0))
    /\ pc' = "awaitMovers"
    /\ UNCHANGED <<symbol, query, snapshot, articles, subtask, responses, tickers,
                   hits, admitted, refused, inflight,
                   upstream, path, detailVars, chatLog, dashboardVars>>

\* response.data.tickers.map throws when the body has no tickers array; the
\* catch block answers that like a failed request.
MoversReply(o, list) ==
    /\ route \in {"topGainers", "topLosers", "mostActive"} /\ pc = "awaitMovers"
    /\ pc' = "done"
    /\ IF o = "tickers"
       THEN /\ tickers' = list
            /\ responses' = RespondList(MoversResult(route, list))
       ELSE /\ list = <<>>
            /\ tickers' = tickers
            /\ responses' = RespondError(500,
                   IF route = "topGainers" THEN "Failed to fetch top gainers"
                   ELSE IF route = "topLosers" THEN "Failed to fetch top losers"
                   ELSE "Failed to fetch most active stocks")
    /\ UNCHANGED <<route, symbol, query, calls, snapshot, articles, subtask,
                   hits, admitted, refused, inflight,
                   upstream, path, detailVars, chatLog, dashboardVars>>

\* ------------------------------------------------- app.use('/api', apiLimiter)
IPs == {"ip1", "ip2"}

\* a limiter configured one request too generous
max_OffByOne == 500 + 1

max == 500

\* The limiter middleware on one request from ip: count it in ip's window and
\* answer 429 when the count exceeds max, else pass it on to its handler,
\* which suspends on its upstream call.
LimiterRequest(ip) ==
    /\ hits[ip] < max + MaxOver
    /\ hits' = [hits EXCEPT ![ip] = @ + 1]
    /\ IF hits'[ip] > max
       THEN /\ refused' = [refused EXCEPT ![ip] = @ + 1]
            /\ UNCHANGED <<admitted, inflight,
                   upstream, path, detailVars, chatLog, dashboardVars>>
       ELSE /\ inflight < MaxInFlight
            /\ admitted' = [admitted EXCEPT ![ip] = @ + 1]
            /\ inflight' = inflight + 1
            /\ refused' = refused
    /\ UNCHANGED <<route, pc, symbol, query, calls, snapshot, articles, subtask,
                   responses, tickers,
                   upstream, path, detailVars, chatLog, dashboardVars>>

\* ip's window (windowMs) expires: its count starts again from zero.
WindowReset(ip) ==
    /\ hits[ip] > 0
    /\ hits' = [hits EXCEPT ![ip] = 0]
    /\ admitted' = [admitted EXCEPT ![ip] = 0]
    /\ refused' = [refused EXCEPT ![ip] = 0]
    /\ UNCHANGED <<route, pc, symbol, query, calls, snapshot, articles, subtask,
                   responses, tickers, inflight,
                   upstream, path, detailVars, chatLog, dashboardVars>>

\* A suspended handler gets its upstream reply and answers.
HandlerDone ==
    /\ inflight > 0
    /\ inflight' = inflight - 1
    /\ UNCHANGED <<route, pc, symbol, query, calls, snapshot, articles, subtask,
                   responses, tickers, hits, admitted, refused,
                   upstream, path, detailVars, chatLog, dashboardVars>>

\* ------------------------------------------------- concurrent requests
\* a handler that waits for its upstream reply without yielding, so that no
\* other handler's continuation can run
StalledRequest_Blocking ==
    /\ inflight < MaxInFlight
    /\ inflight' = inflight + 1
    /\ route' = IF route = "none" THEN "blocked" ELSE route
    /\ pc' = IF pc \in {"idle", "done"} THEN pc ELSE "blocked"
    /\ UNCHANGED <<symbol, query, calls, snapshot, articles, subtask,
                   responses, tickers, hits, admitted, refused,
                   upstream, path, detailVars, chatLog, dashboardVars>>

\* Another request arrives and its handler suspends at its await on an upstream
\* call that never completes. The handler has only local variables: the
\* suspended call is all it leaves behind.
StalledRequest ==
    /\ inflight < MaxInFlight
    /\ inflight' = inflight + 1
    /\ UNCHANGED <<route, pc, symbol, query, calls, snapshot, articles, subtask,
                   responses, tickers, hits, admitted, refused,
                   upstream, path, detailVars, chatLog, dashboardVars>>

\* ------------------------------------------- GET /api/ai/suggest/:symbol
\* The words of a reply text in lower case; the other tokens have no letters
\* or are lower case already.
toLowerCaseToken(tok) ==
    IF tok \in {"Short-Term", "SHORT-TERM"} THEN "short-term"
    ELSE IF tok \in {"Long-Term", "LONG-TERM"} THEN "long-term"
    ELSE tok

\* line.toLowerCase().includes(marker)
Includes(line, marker) == \E k \in 1..Len(line) : toLowerCaseToken(line[k]) = marker

\* text.split(/\n/): the lines between the newline tokens ("" has one empty line)
RECURSIVE splitLines(_, _)
splitLines(t, line) ==
    IF t = <<>> THEN <<line>>
    ELSE IF Head(t) = "\n" THEN <<line>> \o splitLines(Tail(t), <<>>)
    ELSE splitLines(Tail(t), Append(line, Head(t)))

\* tokens matched by (\*|\d+\.|\s)
Markup == {"*", "1.", "2.", " ", "\n"}

RECURSIVE stripMarkup(_)
stripMarkup(line) ==
    IF line # <<>> /\ Head(line) \in Markup THEN stripMarkup(Tail(line)) ELSE line

\* line.replace(/^(\*|\d+\.|\s)+/, "").trim()
CleanLine(line) == trim(stripMarkup(line))

IsMarkerLine(line) == Includes(line, "short-term") \/ Includes(line, "long-term")

\* .split(/\n/).filter(...).map(...)
MarkerLines(text) ==
    LET kept == SelectSeq(splitLines(text, <<>>), IsMarkerLine)
    IN  [k \in 1..Len(kept) |-> CleanLine(kept[k])]

\* const [shortTerm, longTerm] = ...: the first and the second kept line
Destructure(lines, k) == IF k <= Len(lines) THEN lines[k] ELSE Undefined

ShortLine == <<"1.", " ", "Short-Term", ":", " ", "buy">>
LongLine == <<"*", " ", "long-term", ":", " ", "hold", " ">>

SuggestionTexts ==
    { ShortLine \o <<"\n">> \o LongLine,
      LongLine \o <<"\n">> \o ShortLine,
      <<"Here", " ", "you", " ", "go", ":", "\n">> \o ShortLine \o <<"\n", "\n">> \o LongLine,
      ShortLine,
      LongLine,
      <<"SHORT-TERM", " ", "and", " ", "LONG-TERM", ":", " ", "hold">>,
      <<"No", " ", "idea">>,
      <<>> }

SuggestionReplies ==
    { AIReply("noCandidates", <<>>), AIReply("noText", <<>>) }
    \cup { AIReply("text", t) : t \in SuggestionTexts }

SuggestionOutcomes ==
    [ok : {TRUE}, status : {200}, reply : SuggestionReplies]
    \cup [ok : {FALSE}, status : FailStatuses, reply : {AIReply("noCandidates", <<>>)}]

\* candidates?.[0]?.content?.parts?.[0]?.text || ""
TextOf(r) == IF r.kind = "text" THEN r.text ELSE <<>>

Suggestion(suggestion, highlights) ==
    LET lines == MarkerLines(TextOf(suggestion))
        shortTerm == Destructure(lines, 1)
        longTerm == Destructure(lines, 2)
    IN  [shortTerm |-> IF shortTerm = Undefined THEN <<"Short-term insight unavailable.">>
                       ELSE shortTerm,
         longTerm |-> IF longTerm = Undefined THEN <<"Long-term insight unavailable.">>
                      ELSE longTerm,
         highlights |-> IF trim(TextOf(highlights)) = <<>> THEN <<"No highlights available.">>
                        ELSE trim(TextOf(highlights))]

SuggestRequest(s) ==
    /\ route = "none"
    /\ route' = "suggest"
    /\ symbol' = s
    /\ calls' = Append(calls, Call("ai", s, 1))
    /\ pc' = "awaitSuggestion"
    /\ UNCHANGED <<query, snapshot, subtask, responses, articles, tickers, hits, admitted,
                   refused, inflight, upstream, path, detailVars, chatLog, dashboardVars>>

\* The suggestion call settles: its text is parsed and the highlights call is
\* issued, or the catch block answers.
SuggestionReply(o) ==
    /\ route = "suggest" /\ pc = "awaitSuggestion"
    /\ upstream' = o
    /\ IF o.ok
       THEN /\ subtask' = <<[state |-> "ok", reply |-> o.reply]>>
            /\ calls' = Append(calls, Call("ai", symbol, 2))
            /\ pc' = "awaitHighlights"
            /\ UNCHANGED responses
       ELSE /\ responses' = RespondError(500, "Failed to generate suggestions")
            /\ pc' = "done"
            /\ UNCHANGED <<subtask, calls>>
    /\ UNCHANGED <<route, symbol, query, snapshot, articles, tickers,
                   hits, admitted, refused, inflight, path, detailVars, chatLog, dashboardVars>>

HighlightsReply(o) ==
    /\ route = "suggest" /\ pc = "awaitHighlights"
    /\ upstream' = o
    /\ pc' = "done"
    /\ responses' =
         IF o.ok THEN RespondData(Suggestion(subtask[1].reply, o.reply))
         ELSE RespondError(500, "Failed to generate suggestions")
    /\ UNCHANGED <<route, symbol, query, calls, snapshot, subtask, articles, tickers,
                   hits, admitted, refused, inflight, path, detailVars, chatLog, dashboardVars>>

\* ------------------------------------------------- GET /api/market-status
\* result.data.market
MarketFlags == { <<"open">>, <<"closed">>, <<"extended-hours">>, <<"OPEN">>, Undefined }

MarketOutcomes ==
    [ok : {TRUE}, status : {200}, market : MarketFlags,
     nextOpen : {Undefined, <<"09:30">>}, nextClose : {<<"16:00">>}]
    \cup [ok : {FALSE}, status : FailStatuses, market : {Undefined},
          nextOpen : {Undefined}, nextClose : {Undefined}]

\* a handler that counts extended hours as open
StatusOf_Extended(flag) ==
    IF flag = <<"open">> \/ flag = <<"extended-hours">> THEN "OPEN" ELSE "CLOSED"

\* result.data.market === "open" ? "OPEN" : "CLOSED"
StatusOf(flag) == IF flag = <<"open">> THEN "OPEN" ELSE "CLOSED"

\* ------------------------------------------- dashboard (frontend, App.tsx)
popularSymbols == <<"AAPL", "TSLA", "NVDA", "AMZN", "MSFT", "GOOGL">>

indexSymbols ==
    << [symbol |-> "SPY", name |-> "S&P 500"],
       [symbol |-> "QQQ", name |-> "NASDAQ 100"],
       [symbol |-> "DIA", name |-> "Dow Jones"] >>

MoverRequests == <<"top-gainers", "top-losers", "most-active">>

Range(f) == { f[i] : i \in DOMAIN f }

\* every request the dashboard's mount effect makes
Requests ==
    Range(popularSymbols) \cup { indexSymbols[i].symbol : i \in 1..Len(indexSymbols) }
    \cup Range(MoverRequests) \cup {"market-status", "sectors", "news/top"}

NoTopStocks == [topGainers |-> <<>>, topLosers |-> <<>>, mostActive |-> <<>>]

\* The body a successful dashboard request resolves with.
DataOf(r) == [from |-> r]

\* The effect runs once after the first render: it starts the six popular
\* quote requests, the market-status request, and fetchAllData up to its first
\* await.
Mount ==
    /\ fpc = "unmounted"
    /\ fetches' = [r \in Requests |->
                     IF r \in Range(popularSymbols) \cup {"market-status", indexSymbols[1].symbol}
                     THEN "pending" ELSE "unsent"]
    /\ indexResults' = <<>>
    /\ fpc' = indexSymbols[1].symbol
    /\ UNCHANGED <<route, pc, symbol, query, calls, snapshot, articles, subtask, responses,
                   tickers, hits, admitted, refused, inflight, upstream, path, detailVars, chatLog,
                   marketStatus, quickPicks, indices, sectors, topStocks, topNews>>

\* One popular quote request settles. Promise.all fulfils, and its then-callback
\* runs, when all six have fulfilled; it rejects on the first rejection, and no
\* callback is registered for that.
PopularSettle(i, ok) ==
    /\ i \in 1..Len(popularSymbols)
    /\ fetches[popularSymbols[i]] = "pending"
    /\ fetches' = [fetches EXCEPT ![popularSymbols[i]] = IF ok THEN "ok" ELSE "failed"]
    /\ quickPicks' =
         IF \A j \in 1..Len(popularSymbols) : fetches'[popularSymbols[j]] = "ok"
         THEN [j \in 1..Len(popularSymbols) |-> DataOf(popularSymbols[j])]
         ELSE quickPicks
    /\ UNCHANGED <<route, pc, symbol, query, calls, snapshot, articles, subtask, responses,
                   tickers, hits, admitted, refused, inflight, upstream, path, detailVars, chatLog,
                   marketStatus, indices, sectors, topStocks, topNews, indexResults, fpc>>

\* The dashboard's market-status request reaches the backend.
MarketStatusRequest ==
    /\ route = "none"
    /\ fetches["market-status"] = "pending"
    /\ route' = "marketStatus"
    /\ calls' = Append(calls, Call("marketstatus", NoTicker, 0))
    /\ pc' = "awaitStatus"
    /\ UNCHANGED <<symbol, query, snapshot, subtask, responses, articles, tickers, hits,
                   admitted, refused, inflight, upstream, path, detailVars, chatLog, dashboardVars>>

MarketStatusReply(o) ==
    /\ route = "marketStatus" /\ pc = "awaitStatus"
    /\ upstream' = o
    /\ pc' = "done"
    /\ responses' =
         IF o.ok THEN RespondData([status |-> StatusOf(o.market), nextOpen |-> o.nextOpen,
                                  nextClose |-> o.nextClose])
         ELSE RespondError(500, "Failed to fetch market status")
    /\ UNCHANGED <<route, symbol, query, calls, snapshot, subtask, articles, tickers,
                   hits, admitted, refused, inflight, path, detailVars, chatLog, dashboardVars>>

\* The backend's response arrives: .then for a 2xx, .catch for anything else.
MarketStatusReceived ==
    /\ route = "marketStatus" /\ pc = "done"
    /\ fetches["market-status"] = "pending"
    /\ IF responses[1].status = 200
       THEN /\ marketStatus' = responses[1].data.status
            /\ fetches' = [fetches EXCEPT !["market-status"] = "ok"]
       ELSE /\ marketStatus' = "UNKNOWN"
            /\ fetches' = [fetches EXCEPT !["market-status"] = "failed"]
    /\ UNCHANGED <<route, pc, symbol, query, calls, snapshot, articles, subtask, responses,
                   tickers, hits, admitted, refused, inflight, upstream, path, detailVars, chatLog,
                   quickPicks, indices, sectors, topStocks, topNews, indexResults, fpc>>

\* The request fails without a response (backend unreachable, timeout).
MarketStatusLost ==
    /\ fetches["market-status"] = "pending"
    /\ marketStatus' = "UNKNOWN"
    /\ fetches' = [fetches EXCEPT !["market-status"] = "failed"]
    /\ UNCHANGED <<route, pc, symbol, query, calls, snapshot, articles, subtask, responses,
                   tickers, hits, admitted, refused, inflight, upstream, path, detailVars, chatLog,
                   quickPicks, indices, sectors, topStocks, topNews, indexResults, fpc>>

\* The position of an index symbol in indexSymbols.
IndexOf(sym) == CHOOSE i \in 1..Len(indexSymbols) : indexSymbols[i].symbol = sym

\* What fetchAllData does after the index loop: setIndices, then the sectors
\* request.
AfterIndexLoop(results, f) ==
    /\ indices' = results
    /\ fpc' = "sectors"
    /\ fetches' = [f EXCEPT !["sectors"] = "pending"]

\* a loop that gives up at the first failed index
IndexSettle_AbortOnFailure(ok) ==
    /\ fpc \in { indexSymbols[i].symbol : i \in 1..Len(indexSymbols) }
    /\ LET i == IndexOf(fpc)
           f == [fetches EXCEPT ![fpc] = IF ok THEN "ok" ELSE "failed"]
       IN  /\ indexResults' =
                IF ok THEN Append(indexResults, [name |-> indexSymbols[i].name,
                                                 quote |-> DataOf(fpc)])
                ELSE indexResults
           /\ IF ok /\ i < Len(indexSymbols)
              THEN /\ fpc' = indexSymbols[i + 1].symbol
                   /\ fetches' = [f EXCEPT ![indexSymbols[i + 1].symbol] = "pending"]
                   /\ UNCHANGED indices
              ELSE AfterIndexLoop(indexResults', f)
    /\ UNCHANGED <<route, pc, symbol, query, calls, snapshot, articles, subtask, responses,
                   tickers, hits, admitted, refused, inflight, upstream, path, detailVars, chatLog,
                   marketStatus, quickPicks, sectors, topStocks, topNews>>

\* The awaited index quote settles: the try block pushes the entry, the catch
\* block only logs; then the loop issues the next request, or ends.
IndexSettle(ok) ==
    /\ fpc \in { indexSymbols[i].symbol : i \in 1..Len(indexSymbols) }
    /\ LET i == IndexOf(fpc)
           f == [fetches EXCEPT ![fpc] = IF ok THEN "ok" ELSE "failed"]
       IN  /\ indexResults' =
                IF ok THEN Append(indexResults, [name |-> indexSymbols[i].name,
                                                 quote |-> DataOf(fpc)])
                ELSE indexResults
           /\ IF i < Len(indexSymbols)
              THEN /\ fpc' = indexSymbols[i + 1].symbol
                   /\ fetches' = [f EXCEPT ![indexSymbols[i + 1].symbol] = "pending"]
                   /\ UNCHANGED indices
              ELSE AfterIndexLoop(indexResults', f)
    /\ UNCHANGED <<route, pc, symbol, query, calls, snapshot, articles, subtask, responses,
                   tickers, hits, admitted, refused, inflight, upstream, path, detailVars, chatLog,
                   marketStatus, quickPicks, sectors, topStocks, topNews>>

\* The sectors request settles; the three movers requests start together.
SectorsSettle(ok) ==
    /\ fpc = "sectors"
    /\ sectors' = IF ok THEN <<DataOf("sectors")>> ELSE sectors
    /\ fetches' = [r \in Requests |->
                     IF r = "sectors" THEN (IF ok THEN "ok" ELSE "failed")
                     ELSE IF r \in Range(MoverRequests) THEN "pending"
                     ELSE fetches[r]]
    /\ fpc' = "movers"
    /\ UNCHANGED <<route, pc, symbol, query, calls, snapshot, articles, subtask, responses,
                   tickers, hits, admitted, refused, inflight, upstream, path, detailVars, chatLog,
                   marketStatus, quickPicks, indices, topStocks, topNews, indexResults>>

\* One movers request settles. While fetchAllData awaits the join, the first
\* rejection takes it to the catch block and the last fulfilment to the three
\* setters; either way the news request follows. A request that settles after
\* the join was rejected changes nothing.
MoverSettle(i, ok) ==
    /\ i \in 1..Len(MoverRequests)
    /\ fetches[MoverRequests[i]] = "pending"
    /\ LET f == [fetches EXCEPT ![MoverRequests[i]] = IF ok THEN "ok" ELSE "failed"]
           joined == \A j \in 1..Len(MoverRequests) : f[MoverRequests[j]] = "ok"
       IN  IF fpc = "movers" /\ (~ok \/ joined)
           THEN /\ topStocks' =
                     IF joined
                     THEN [topGainers |-> <<DataOf(MoverRequests[1])>>,
                           topLosers |-> <<DataOf(MoverRequests[2])>>,
                           mostActive |-> <<DataOf(MoverRequests[3])>>]
                     ELSE topStocks
                /\ fpc' = "news"
                /\ fetches' = [f EXCEPT !["news/top"] = "pending"]
           ELSE /\ fetches' = f
                /\ UNCHANGED <<topStocks, fpc>>
    /\ UNCHANGED <<route, pc, symbol, query, calls, snapshot, articles, subtask, responses,
                   tickers, hits, admitted, refused, inflight, upstream, path, detailVars, chatLog,
                   marketStatus, quickPicks, indices, sectors, topNews, indexResults>>

TopNewsSettle(ok) ==
    /\ fpc = "news"
    /\ topNews' = IF ok THEN <<DataOf("news/top")>> ELSE topNews
    /\ fetches' = [fetches EXCEPT !["news/top"] = IF ok THEN "ok" ELSE "failed"]
    /\ fpc' = "finished"
    /\ UNCHANGED <<route, pc, symbol, query, calls, snapshot, articles, subtask, responses,
                   tickers, hits, admitted, refused, inflight, upstream, path, detailVars, chatLog,
                   marketStatus, quickPicks, indices, sectors, topStocks, indexResults>>

\* ------------------------------------- stock detail page (StockDetail.tsx)
periods == <<"1D", "1W", "1M", "6M", "1Y", "ALL">>

\* useState(null)
NoChart == [period |-> "null", request |-> 0]

\* The chart effect runs after the first render and requests the chart of the
\* initial period.
DetailMount ==
    /\ chartFetches = <<>>
    /\ chartFetches' = <<[period |-> selectedPeriod, state |-> "pending"]>>
    /\ UNCHANGED <<route, pc, symbol, query, calls, snapshot, articles, subtask, responses,
                   tickers, hits, admitted, refused, inflight, upstream, chatLog,
                   dashboardVars, path, selectedPeriod, chartData, selections>>

\* A period button is clicked: setSelectedPeriod(period). A changed period
\* re-runs the effect, which makes a new request; nothing is done about the
\* requests still in flight.
SelectPeriod(i) ==
    /\ chartFetches # <<>>
    /\ selections < MaxSelections
    /\ i \in 1..Len(periods)
    /\ selections' = selections + 1
    /\ selectedPeriod' = periods[i]
    /\ chartFetches' =
         IF periods[i] = selectedPeriod THEN chartFetches
         ELSE Append(chartFetches, [period |-> periods[i], state |-> "pending"])
    /\ UNCHANGED <<route, pc, symbol, query, calls, snapshot, articles, subtask, responses,
                   tickers, hits, admitted, refused, inflight, upstream, chatLog,
                   dashboardVars, path, chartData>>

\* The k-th chart request settles: the try block sets chartData from the
\* response, the catch block only logs.
ChartArrives(k, ok) ==
    /\ k \in 1..Len(chartFetches)
    /\ chartFetches[k].state = "pending"
    /\ chartFetches' = [chartFetches EXCEPT ![k].state = IF ok THEN "ok" ELSE "failed"]
    /\ chartData' = IF ok THEN [period |-> chartFetches[k].period, request |-> k]
                    ELSE chartData
    /\ UNCHANGED <<route, pc, symbol, query, calls, snapshot, articles, subtask, responses,
                   tickers, hits, admitted, refused, inflight, upstream, chatLog,
                   dashboardVars, path, selectedPeriod, selections>>

\* -------------------------------------------------------- POST /api/ai/chat
Fallback == <<"Sorry, I couldn't find an answer.">>

Questions == { <<"Is", " ", "TSLA", " ", "a", " ", "buy?">>, <<"Why?">> }

ChatOutcomes ==
    [ok : {TRUE}, status : {200}, reply : AllReplies]
    \cup [ok : {FALSE}, status : FailStatuses, reply : {AIReply("noCandidates", <<>>)}]

\* a handler that keeps the conversation: the previous answer precedes the new one
ChatAnswer_WithMemory(r) ==
    LET own == IF r.kind # "text" \/ trim(r.text) = <<>> THEN Fallback ELSE trim(r.text)
    IN  IF chatLog # <<>> /\ chatLog[Len(chatLog)].response.status = 200
        THEN chatLog[Len(chatLog)].response.data.answer \o own
        ELSE own

\* response.candidates?.[0]?.content?.parts?.[0]?.text?.trim() || "Sorry, ..."
ChatAnswer(r) ==
    IF r.kind = "noCandidates" \/ r.kind = "noText" THEN Fallback
    ELSE IF trim(r.text) = <<>> THEN Fallback
    ELSE trim(r.text)

\* A chat request arrives: the first one, or the next one after an answered one.
ChatRequest(q) ==
    /\ \/ route = "none"
       \/ route = "chat" /\ pc = "done" /\ Len(chatLog) < MaxChats
    /\ route' = "chat"
    /\ calls' = <<Call("chat", q, 0)>>
    /\ responses' = <<>>
    /\ pc' = "awaitChat"
    /\ upstream' = NoUpstream
    /\ UNCHANGED <<symbol, query, snapshot, articles, subtask, tickers,
                   hits, admitted, refused, inflight, path, detailVars, chatLog, dashboardVars>>

ChatReply(o) ==
    /\ route = "chat" /\ pc = "awaitChat"
    /\ upstream' = o
    /\ pc' = "done"
    /\ responses' =
         IF o.ok THEN RespondData([answer |-> ChatAnswer(o.reply)])
         ELSE RespondError(500, "Failed to get response from AI")
    /\ chatLog' = Append(chatLog, [question |-> calls[1].ticker, outcome |-> o,
                                   calls |-> Len(calls), response |-> responses'[1]])
    /\ UNCHANGED <<route, symbol, query, calls, snapshot, articles, subtask, tickers,
                   hits, admitted, refused, inflight, path, detailVars, dashboardVars>>

\* ------------------------------------------------------------------- spec
Init ==
    /\ route = "none"
    /\ pc = "idle"
    /\ symbol = Undefined
    /\ query = Undefined
    /\ calls = <<>>
    /\ snapshot = NoSnapshot
    /\ articles = <<>>
    /\ subtask = <<>>
    /\ responses = <<>>
    /\ tickers = <<>>
    /\ hits = [ip \in IPs |-> 0]
    /\ admitted = [ip \in IPs |-> 0]
    /\ refused = [ip \in IPs |-> 0]
    /\ inflight = 0
    /\ upstream = NoUpstream
    /\ chatLog = <<>>
    /\ marketStatus = "LOADING..."
    /\ quickPicks = <<>>
    /\ indices = <<>>
    /\ sectors = <<>>
    /\ topStocks = NoTopStocks
    /\ topNews = <<>>
    /\ fetches = [r \in Requests |-> "unsent"]
    /\ indexResults = <<>>
    /\ fpc = "unmounted"
    /\ path = <<>>
    /\ selectedPeriod = "1D"
    /\ chartData = NoChart
    /\ chartFetches = <<>>
    /\ selections = 0

Next ==
    \/ \E s \in Symbols : QuoteRequest(s)
    \/ \E o \in SnapshotOutcomes : SnapshotReply(o)
    \/ \E o \in MetaOutcomes : MetaReply(o)
    \/ \E s \in Symbols, q \in RangeQueries, now \in Times : ChartRequest(s, q, now)
    \/ \E o \in ChartOutcomes : ChartReply(o)
    \/ \E q \in SearchQueries : SearchRequest(q)
    \/ \E s \in NewsSymbols : SuggestRequest(s)
    \/ \E o \in SuggestionOutcomes : SuggestionReply(o)
    \/ \E o \in ChatOutcomes : HighlightsReply(o)
    \/ \E o \in SearchOutcomes : SearchReply(o)
    \/ NewsDispatch(<<"t", "o", "p">>)
    \/ \E s \in NewsSymbols : NewsDispatch(s)
    \/ \E o \in NewsOutcomes : NewsReply(o)
    \/ \E i \in 1..MaxArticles : \E r \in RepliesFor(i) : SentimentReply(i, r)
    \/ \E i \in 1..MaxArticles : SentimentFail(i)
    \/ SectorsRequest
    \/ \E i \in 1..Len(sectorETFs) : \E st \in SectorOutcomes : SectorReply(i, st)
    \/ \E r \in {"topGainers", "topLosers", "mostActive"} : MoversRequest(r)
    \/ /\ pc = "awaitMovers"
       /\ \E o \in MoversOutcomes : \E list \in ShortTickerLists : MoversReply(o, list)

Spec == Init /\ [][Next]_vars

\* The movers endpoints, over every upstream ticker list up to MaxTickers.
NextMovers ==
    \/ \E r \in {"topGainers", "topLosers", "mostActive"} : MoversRequest(r)
    \/ /\ pc = "awaitMovers"
       /\ \E o \in MoversOutcomes : \E list \in TickerLists : MoversReply(o, list)

SpecMovers == Init /\ [][NextMovers]_vars

\* A sequence of chat requests, one after the other.
NextChat ==
    \/ \E q \in Questions : ChatRequest(q)
    \/ \E o \in ChatOutcomes : ChatReply(o)

SpecChat == Init /\ [][NextChat]_vars

\* The dashboard's mount effect: popular quotes and market status.
NextDashboard ==
    \/ Mount
    \/ \E i \in 1..Len(popularSymbols) : \E ok \in BOOLEAN : PopularSettle(i, ok)
    \/ MarketStatusRequest
    \/ \E o \in MarketOutcomes : MarketStatusReply(o)
    \/ MarketStatusReceived
    \/ MarketStatusLost

SpecDashboard == Init /\ [][NextDashboard]_vars

\* The dashboard's fetchAllData.
NextFetchAll ==
    \/ Mount
    \/ \E ok \in BOOLEAN : IndexSettle(ok)
    \/ \E ok \in BOOLEAN : SectorsSettle(ok)
    \/ \E i \in 1..Len(MoverRequests) : \E ok \in BOOLEAN : MoverSettle(i, ok)
    \/ \E ok \in BOOLEAN : TopNewsSettle(ok)

SpecFetchAll == Init /\ [][NextFetchAll]_vars

\* The chart of the stock detail page.
NextDetail ==
    \/ DetailMount
    \/ \E i \in 1..Len(periods) : SelectPeriod(i)
    \/ \E k \in 1..(MaxSelections + 1) : \E ok \in BOOLEAN : ChartArrives(k, ok)

SpecDetail == Init /\ [][NextDetail]_vars

\* Path segments of up to MaxSegment characters.
SegmentChars == {"t", "o", "p", "T", "O", "P", "a"}

NewsSegments ==
    UNION { [1..n -> SegmentChars] : n \in 1..MaxSegment }

\* Requests GET /api/news/<segment> arriving at the router.
NextRouting ==
    \E seg \in NewsSegments : NewsDispatch(seg)

SpecRouting == Init /\ [][NextRouting]_vars

\* A news or search request served while other requests are stalled on their
\* upstream calls.
NextConcurrent ==
    \/ StalledRequest
    \/ NewsDispatch(<<"t", "o", "p">>)
    \/ \E s \in NewsSymbols : NewsDispatch(s)
    \/ \E o \in NewsOutcomes : o.results <= FullReplyArticles /\ NewsReply(o)
    \/ \E i \in 1..FullReplyArticles : \E r \in RepliesFor(i) : SentimentReply(i, r)
    \/ \E i \in 1..FullReplyArticles : SentimentFail(i)
    \/ \E q \in SearchQueries : SearchRequest(q)
    \/ \E o \in SearchOutcomes : SearchReply(o)

\* The upstream calls of the served request complete.
OwnReplies ==
    \/ \E o \in NewsOutcomes : o.results <= FullReplyArticles /\ NewsReply(o)
    \/ \E i \in 1..FullReplyArticles : \E r \in RepliesFor(i) : SentimentReply(i, r)
    \/ \E i \in 1..FullReplyArticles : SentimentFail(i)
    \/ \E o \in SearchOutcomes : SearchReply(o)

SpecConcurrent == Init /\ [][NextConcurrent]_vars /\ WF_vars(OwnReplies)

\* The rate limiter in front of all /api routes.
NextLimiter ==
    \/ \E ip \in IPs : LimiterRequest(ip)
    \/ \E ip \in IPs : WindowReset(ip)
    \/ HandlerDone

SpecLimiter == Init /\ [][NextLimiter]_vars

TypeOK == Len(responses) <= 1

\* ===================================================================== claims
IsNews == route \in {"newsTop", "newsSymbol"}
Answered(st) == pc = "done" /\ Len(responses) = 1 /\ responses[1].status = st

SentimentEnum == { <<"Positive">>, <<"Negative">>, <<"Neutral">> }

\* C1: every article of a 200 news response carries a sentiment that is exactly
\* one of Positive, Negative, Neutral, whatever text the AI replied.
C1_SentimentIsEnum ==
    (IsNews /\ Answered(200)) =>
        \A i \in 1..Len(responses[1].items) :
            responses[1].items[i].sentiment \in SentimentEnum

\* The sentiment a reply text stands for: the text between its leading and
\* trailing whitespace, or Neutral when nothing is left or there is no text.
C2_DerivedFrom(sent, r) ==
    IF r.kind # "text" THEN sent = Neutral
    ELSE \E a \in 0..Len(r.text) : \E b \in a..Len(r.text) :
            LET mid == SubSeq(r.text, a + 1, b) IN
            /\ \A k \in 1..a : r.text[k] \in Whitespace
            /\ \A k \in (b + 1)..Len(r.text) : r.text[k] \in Whitespace
            /\ mid = <<>> \/ (mid[1] \notin Whitespace /\ mid[Len(mid)] \notin Whitespace)
            /\ sent = IF mid = <<>> THEN Neutral ELSE mid

\* C2: with n >= 1 articles, whichever AI calls fail, the response is 200 with
\* the n articles in upstream order; a failed headline is Neutral and every
\* other headline has the sentiment of its own reply.
C2_PartialFailureIsolation ==
    (IsNews /\ pc = "done" /\ Len(articles) >= 1) =>
        /\ Answered(200)
        /\ Len(responses[1].items) = Len(articles)
        /\ \A i \in 1..Len(articles) :
              /\ responses[1].items[i].title = articles[i]
              /\ subtask[i].state = "failed" => responses[1].items[i].sentiment = Neutral
              /\ subtask[i].state = "ok" =>
                    C2_DerivedFrom(responses[1].items[i].sentiment, subtask[i].reply)

C2_Witness ==
    /\ IsNews /\ Answered(200) /\ Len(articles) >= 3
    /\ \E i, j \in 1..Len(articles) :
          /\ subtask[i].state = "failed"
          /\ subtask[j].state = "ok"
          /\ responses[1].items[j].sentiment = <<"Negative">>
          /\ i < j

\* C4: a valid symbol without upstream snapshot (snapshot request answered 404,
\* or answered with an absent or empty ticker payload) gets 404, whatever the
\* metadata request does.
C4_NoSnapshotIs404 ==
    (/\ route = "quote" /\ pc = "done" /\ validationResult(symbol) = <<>>
     /\ \/ (~snapshot.ok /\ snapshot.status = 404)
        \/ (snapshot.ok /\ snapshot.payload \in {"absent", "empty"}))
    => Answered(404)

C5_Invalid(s) ==
    \/ Len(s) < 1 \/ Len(s) > 10
    \/ \E i \in 1..Len(s) : ~(IsLower(s[i]) \/ IsUpper(s[i]) \/ s[i] \in DigitChars)

\* C5: on every route taking :symbol, an invalid symbol is answered 400 with one
\* message and no upstream call is issued for the request.
C5_InvalidSymbolRejected ==
    (route \in {"quote", "chart", "newsSymbol"} /\ C5_Invalid(symbol)) =>
        /\ calls = <<>>
        /\ Answered(400)
        /\ responses[1].error # ""

\* C6 as stated: the Quote's symbol is the upstream ticker converted to upper
\* case, and both upstream requests carry the symbol in upper case.
C6_SymbolUppercased ==
    (route = "quote" /\ Answered(200)) =>
        /\ responses[1].symbol = toUpperCase(snapshot.ticker)
        /\ \A k \in 1..Len(calls) : calls[k].ticker = toUpperCase(symbol)

C6_SameLetter(c, d) ==
    \/ c = d
    \/ \E k \in 1..Len(LowerLetters) : c = LowerLetters[k] /\ d = UpperLetters[k]

\* C6 amended: the Quote's symbol is the upstream snapshot's ticker exactly as
\* upstream sent it; both upstream requests carry the requested symbol with
\* every lower-case letter replaced by its upper-case letter.
C6_SymbolIsUpstreamTicker ==
    /\ (route = "quote" /\ Answered(200)) => responses[1].symbol = snapshot.ticker
    /\ route = "quote" =>
          \A k \in 1..Len(calls) :
              /\ calls[k].api = IF k = 1 THEN "snapshot" ELSE "meta"
              /\ Len(calls[k].ticker) = Len(symbol)
              /\ \A i \in 1..Len(symbol) :
                    /\ ~IsLower(calls[k].ticker[i])
                    /\ C6_SameLetter(symbol[i], calls[k].ticker[i])

C6_Witness ==
    /\ route = "quote" /\ Answered(200) /\ Len(calls) = 2
    /\ \E i \in 1..Len(symbol) : IsLower(symbol[i])
    /\ responses[1].symbol = <<"A", "b">>

C7_Table ==
    { [key |-> <<"1", "D">>, multiplier |-> 1, unit |-> "minute", days |-> 1],
      [key |-> <<"1", "W">>, multiplier |-> 15, unit |-> "minute", days |-> 7],
      [key |-> <<"1", "M">>, multiplier |-> 1, unit |-> "day", days |-> 30],
      [key |-> <<"6", "M">>, multiplier |-> 1, unit |-> "day", days |-> 180],
      [key |-> <<"1", "Y">>, multiplier |-> 1, unit |-> "day", days |-> 365],
      [key |-> <<"A", "L", "L">>, multiplier |-> 1, unit |-> "day", days |-> 1825] }

C7_Matches(q, key) ==
    /\ Len(q) = Len(key)
    /\ \A i \in 1..Len(key) : C6_SameLetter(q[i], key[i])

C7_Row(q) ==
    IF q # Undefined /\ \E r \in C7_Table : C7_Matches(q, r.key)
    THEN CHOOSE r \in C7_Table : C7_Matches(q, r.key)
    ELSE CHOOSE r \in C7_Table : r.key = <<"1", "D">>

\* C7: the chart handler's upstream request uses the table row matching the
\* range value case-insensitively (the 1D row when the value is missing or not
\* in the table), and its from date lies exactly that row's lookback days
\* before its to date.
C7_RangeMapping ==
    route = "chart" =>
        /\ Len(calls) = 1 /\ calls[1].api = "aggs"
        /\ calls[1].multiplier = C7_Row(query).multiplier
        /\ calls[1].timespan = C7_Row(query).unit
        /\ calls[1].to - calls[1].from = C7_Row(query).days

C7_Witness ==
    /\ route = "chart" /\ query = <<"A", "l", "L">>
    /\ calls[1].to - calls[1].from = 1825 /\ calls[1].to = 20600

C7_WitnessFallback ==
    /\ route = "chart" /\ query = <<"5", "Y">> /\ calls[1].timespan = "minute"

\* C9: no upstream call of a request is issued twice: the calls of one request
\* differ pairwise in the API called or in the item they are made for.
C9_NoRetry ==
    \A i, j \in 1..Len(calls) :
        (calls[i].api = calls[j].api /\ calls[i].idx = calls[j].idx) => i = j

C9_Witness ==
    \/ route = "quote" /\ Answered(500) /\ ~snapshot.ok /\ Len(calls) = 1
    \/ /\ route = "sectors" /\ pc = "done" /\ Len(calls) = 5
       /\ \E i \in 1..5 : subtask[i].state = "failed"

C8_Min(a, b) == IF a < b THEN a ELSE b

\* C8: most-active answers min(7, n) entries in non-increasing volume order,
\* each a distinct entry of the upstream list with its volume (0 when missing),
\* and no entry left out has a larger volume than one returned; top-gainers and
\* top-losers answer the first min(5, n) upstream entries in upstream order.
C8_MoversTruncation ==
    LET items == responses[1].items
        vol(k) == IF tickers[k].v = Missing THEN 0 ELSE tickers[k].v
    IN
    /\ (route = "mostActive" /\ Answered(200)) =>
          /\ Len(items) = C8_Min(7, Len(tickers)) /\ Len(items) <= 7
          /\ \A i \in 1..(Len(items) - 1) : items[i].volume >= items[i + 1].volume
          /\ \A i \in 1..Len(items) :
                /\ items[i].symbol \in 1..Len(tickers)
                /\ items[i].volume = vol(items[i].symbol)
          /\ \A i, j \in 1..Len(items) : items[i].symbol = items[j].symbol => i = j
          /\ \A k \in 1..Len(tickers) :
                (\A i \in 1..Len(items) : items[i].symbol # k) =>
                    \A i \in 1..Len(items) : vol(k) <= items[i].volume
    /\ (route \in {"topGainers", "topLosers"} /\ Answered(200)) =>
          /\ Len(items) = C8_Min(5, Len(tickers)) /\ Len(items) <= 5
          /\ \A i \in 1..Len(items) :
                /\ items[i].symbol = tickers[i].ticker
                /\ items[i].volume = vol(i)

C8_Witness ==
    /\ route = "mostActive" /\ Answered(200)
    /\ Len(tickers) = 8 /\ Len(responses[1].items) = 7
    /\ tickers[1].v = Missing /\ tickers[2].v = 1 /\ tickers[8].v = 2
    /\ responses[1].items[1].volume = 2

C8_WitnessGainers ==
    /\ route = "topGainers" /\ Answered(200)
    /\ Len(tickers) = 6 /\ Len(responses[1].items) = 5 /\ tickers[6].v = 2

\* C3: in each window of each client IP at most 500 requests reach a handler,
\* however many handlers are still suspended; once 500 were admitted every
\* further request of the window is answered 429; each IP has its own count.
C3_RateLimit ==
    \A ip \in IPs :
        /\ admitted[ip] <= 500
        /\ admitted[ip] + refused[ip] = hits[ip]
        /\ refused[ip] > 0 => admitted[ip] = 500
        /\ hits[ip] <= 500 => refused[ip] = 0

C3_Witness ==
    /\ admitted["ip1"] = 500 /\ refused["ip1"] = 2 /\ inflight = 2
    /\ admitted["ip2"] = 3 /\ refused["ip2"] = 0

QuoteNumericFields ==
    {"price", "volume", "change", "changePercent", "open", "prevClose", "high", "low",
     "avgVolume", "marketCap", "week52High", "week52Low"}

C11_NumberOrNull(x) == x = Null \/ x \in Nat

\* C11: every numeric field of a 200 Quote, of every 200 mover entry and of
\* every 200 sector entry is a number or null, never absent, whichever upstream
\* fields and objects are missing.
C11_NumericFieldsPresent ==
    /\ (route = "quote" /\ Answered(200)) =>
          \A f \in QuoteNumericFields : C11_NumberOrNull(responses[1].data[f])
    /\ (route \in {"topGainers", "topLosers", "mostActive"} /\ Answered(200)) =>
          \A i \in 1..Len(responses[1].items) :
              /\ C11_NumberOrNull(responses[1].items[i].price)
              /\ C11_NumberOrNull(responses[1].items[i].changePercent)
              /\ C11_NumberOrNull(responses[1].items[i].volume)
    /\ (route = "sectors" /\ Answered(200)) =>
          \A i \in 1..Len(responses[1].items) :
              C11_NumberOrNull(responses[1].items[i].changePercent)

C11_Witness ==
    /\ route = "quote" /\ Answered(200)
    /\ snapshot.num.day.absent /\ snapshot.num.min.absent
    /\ upstream.results = "absent"
    /\ responses[1].data.open = 0 /\ responses[1].data.marketCap = Null

C11_WitnessPrevDay ==
    /\ route = "quote" /\ Answered(200) /\ snapshot.num.extras.prevDayAbsent
    /\ responses[1].data.prevClose = 0

C11_WitnessMover ==
    /\ route = "topGainers" /\ Answered(200) /\ Len(tickers) = 1
    /\ tickers[1].p = Missing /\ tickers[1].v = Null

C11_WitnessSector ==
    /\ route = "sectors" /\ Answered(200)
    /\ \E i \in 1..5 : subtask[i].reply.kind = "noPerc"

C17_Defined(x) == x # Missing /\ x # Null

C17_FirstNonNull(d, m) == IF C17_Defined(d) THEN d ELSE IF C17_Defined(m) THEN m ELSE 0

\* C17: open, high, low, price and volume of the Quote are each the first
\* non-null of the daily-bar field, the minute-bar field and 0; a daily-bar
\* field that is present wins even when it is 0.
C17_FirstNonNullWins ==
    (route = "quote" /\ Answered(200)) =>
        LET day == snapshot.num.day
            min == snapshot.num.min
            q == responses[1].data
        IN  /\ q.open = C17_FirstNonNull(day.o, min.o)
            /\ q.high = C17_FirstNonNull(day.h, min.h)
            /\ q.low = C17_FirstNonNull(day.l, min.l)
            /\ q.price = C17_FirstNonNull(day.c, min.c)
            /\ q.volume = C17_FirstNonNull(day.v, min.v)

\* ans is text without its leading and trailing whitespace, or the fallback
\* when nothing is left.
C12_TrimmedOr(ans, text, fallback) ==
    \E a \in 0..Len(text) : \E b \in a..Len(text) :
        LET mid == SubSeq(text, a + 1, b) IN
        /\ \A k \in 1..a : text[k] \in Whitespace
        /\ \A k \in (b + 1)..Len(text) : text[k] \in Whitespace
        /\ mid = <<>> \/ (mid[1] \notin Whitespace /\ mid[Len(mid)] \notin Whitespace)
        /\ ans = IF mid = <<>> THEN fallback ELSE mid

\* C12: every chat exchange issued exactly one AI call; when the call succeeded
\* the response is 200 with the first candidate's text trimmed, or the fixed
\* fallback when the text is absent or blank; when it failed the response is
\* 500. The answer is determined by the exchange's own AI reply, whatever
\* exchanges came before it.
C12_ChatAnswer ==
    /\ route = "chat" => Len(calls) = 1 /\ calls[1].api = "chat"
    /\ \A k \in 1..Len(chatLog) :
          LET e == chatLog[k] IN
          /\ e.calls = 1
          /\ e.outcome.ok =>
                /\ e.response.status = 200
                /\ IF e.outcome.reply.kind = "text"
                   THEN C12_TrimmedOr(e.response.data.answer, e.outcome.reply.text,
                                      <<"Sorry, I couldn't find an answer.">>)
                   ELSE e.response.data.answer = <<"Sorry, I couldn't find an answer.">>
          /\ ~e.outcome.ok => e.response.status = 500

C12_Witness ==
    /\ Len(chatLog) = 2
    /\ chatLog[1].response.status = 200
    /\ chatLog[1].response.data.answer = <<"Very", " ", "Positive">>
    /\ chatLog[2].outcome.ok /\ chatLog[2].outcome.reply.text = <<" ", "Negative", "\n">>
    /\ chatLog[2].response.data.answer = <<"Negative">>

\* C13: the search handler answers 200 with an empty array when the upstream
\* call fails with 404 or succeeds without a results array, 200 with the
\* upstream results as they came otherwise, and 500 exactly when the upstream
\* call fails with something other than 404.
C13_SearchOutcome ==
    (route = "search" /\ pc = "done") =>
        /\ Len(responses) = 1
        /\ (~upstream.ok /\ upstream.status = 404) =>
              responses[1].status = 200 /\ responses[1].items = <<>>
        /\ (upstream.ok /\ upstream.results = <<"undefined">>) =>
              responses[1].status = 200 /\ responses[1].items = <<>>
        /\ (upstream.ok /\ upstream.results # <<"undefined">>) =>
              responses[1].status = 200 /\ responses[1].items = upstream.results
        /\ responses[1].status = 500 <=> (~upstream.ok /\ upstream.status # 404)
        /\ responses[1].status \in {200, 500}

C13_Witness ==
    /\ route = "search" /\ pc = "done"
    /\ ~upstream.ok /\ upstream.status = 404
    /\ responses[1].status = 200 /\ responses[1].items = <<>>

C13_WitnessResults ==
    /\ route = "search" /\ pc = "done"
    /\ upstream.ok /\ responses[1].items = <<"hit1", "hit2">>

\* C14: the chart handler answers 200 with exactly the bars the upstream
\* returned, in the same order; 200 with an empty array when the upstream
\* results are absent or empty; and 500 whenever the upstream call fails,
\* whatever its status.
C14_ChartOutcome ==
    (route = "chart" /\ pc = "done") =>
        /\ Len(responses) = 1
        /\ ~upstream.ok => responses[1].status = 500
        /\ upstream.ok =>
              /\ responses[1].status = 200
              /\ responses[1].items =
                    IF upstream.results = <<"undefined">> THEN <<>> ELSE upstream.results

C14_Witness ==
    /\ route = "chart" /\ pc = "done"
    /\ ~upstream.ok /\ upstream.status = 404
    /\ responses[1].status = 500

C14_WitnessBars ==
    /\ route = "chart" /\ pc = "done"
    /\ upstream.ok /\ responses[1].items = <<"bar1", "bar2", "bar3">>

\* C15: in both news handlers an upstream success whose results are absent or
\* empty is answered 404 with no AI call made, and a failed upstream news call
\* is answered 500.
C15_NewsEmptyOrFailed ==
    (IsNews /\ pc # "awaitNews") =>
        /\ (upstream.ok /\ upstream.results \in {-1, 0}) =>
              /\ Answered(404)
              /\ Len(calls) = 1 /\ calls[1].api = "news"
        /\ ~upstream.ok =>
              /\ Answered(500)
              /\ Len(calls) = 1 /\ calls[1].api = "news"

C15_Witness ==
    /\ route = "newsTop" /\ Answered(404)
    /\ upstream.ok /\ upstream.results = 0

C15_WitnessAbsent ==
    /\ route = "newsSymbol" /\ Answered(404)
    /\ upstream.ok /\ upstream.results = -1

C15_WitnessFailed ==
    /\ route = "newsSymbol" /\ Answered(500) /\ ~upstream.ok

\* C16: the market-status handler answers an upstream success with OPEN exactly
\* when the upstream market flag is "open" and with CLOSED for every other
\* flag; it never answers UNKNOWN. The dashboard shows UNKNOWN exactly when its
\* market-status request has failed, and the status the backend returned when
\* the request succeeded.
C16_MarketStatus ==
    /\ (route = "marketStatus" /\ pc = "done") =>
          /\ Len(responses) = 1
          /\ upstream.ok =>
                /\ responses[1].status = 200
                /\ responses[1].data.status = "OPEN" <=> upstream.market = <<"open">>
                /\ responses[1].data.status = "CLOSED" <=> upstream.market # <<"open">>
          /\ ~upstream.ok => responses[1].status = 500 /\ responses[1].data = <<>>
    /\ marketStatus = "UNKNOWN" <=> fetches["market-status"] = "failed"
    /\ fetches["market-status"] = "ok" =>
          /\ responses[1].status = 200
          /\ marketStatus = responses[1].data.status
          /\ marketStatus \in {"OPEN", "CLOSED"}

C16_Witness ==
    /\ fetches["market-status"] = "ok"
    /\ upstream.ok /\ upstream.market = <<"extended-hours">>
    /\ marketStatus = "CLOSED"

C16_WitnessOpen ==
    /\ fetches["market-status"] = "ok" /\ upstream.market = <<"open">> /\ marketStatus = "OPEN"

C16_WitnessUnknown ==
    /\ route = "marketStatus" /\ pc = "done" /\ responses[1].status = 500
    /\ fetches["market-status"] = "failed" /\ marketStatus = "UNKNOWN"

C18_Popular == { popularSymbols[i] : i \in 1..6 }

C18_Succeeded == SelectSeq(popularSymbols, LAMBDA s : fetches[s] = "ok")

\* C18: once all six popular quote requests have completed, the popular-stocks
\* list holds the results of the requests that succeeded, whichever subset of
\* the six failed.
C18_JoinKeepsSuccesses ==
    (\A s \in C18_Popular : fetches[s] \in {"ok", "failed"}) =>
        /\ Len(quickPicks) = Len(C18_Succeeded)
        /\ \A k \in 1..Len(quickPicks) : quickPicks[k].from = C18_Succeeded[k]

C19_Settled(sym) == fetches[sym] \in {"ok", "failed"}

C19_InLoop == fpc \in {"SPY", "QQQ", "DIA"}

C19_Names ==
    (IF fetches["SPY"] = "ok" THEN <<"S&P 500">> ELSE <<>>)
    \o (IF fetches["QQQ"] = "ok" THEN <<"NASDAQ 100">> ELSE <<>>)
    \o (IF fetches["DIA"] = "ok" THEN <<"Dow Jones">> ELSE <<>>)

\* C19: the three index quotes are requested one at a time in the order SPY,
\* QQQ, DIA: a request is issued only when its predecessor has completed, and
\* at most one is outstanding. A failed request does not stop the later ones:
\* when the loop is over all three have completed and the indices list holds
\* exactly the indices whose request succeeded, in that order.
C19_SequentialIndices ==
    /\ fetches["QQQ"] # "unsent" => C19_Settled("SPY")
    /\ fetches["DIA"] # "unsent" => C19_Settled("QQQ")
    /\ Cardinality({ sym \in {"SPY", "QQQ", "DIA"} : fetches[sym] = "pending" }) <= 1
    /\ (C19_InLoop \/ fpc = "unmounted") => indices = <<>>
    /\ (~C19_InLoop /\ fpc # "unmounted") =>
          /\ \A sym \in {"SPY", "QQQ", "DIA"} : C19_Settled(sym)
          /\ Len(indices) = Len(C19_Names)
          /\ \A k \in 1..Len(indices) : indices[k].name = C19_Names[k]

C19_Witness ==
    /\ fpc = "sectors"
    /\ fetches["SPY"] = "failed" /\ fetches["QQQ"] = "ok" /\ fetches["DIA"] = "ok"
    /\ Len(indices) = 2 /\ indices[1].name = "NASDAQ 100" /\ indices[2].name = "Dow Jones"

C19_WitnessMiddle ==
    /\ fpc = "finished"
    /\ fetches["SPY"] = "ok" /\ fetches["QQQ"] = "failed" /\ fetches["DIA"] = "ok"
    /\ Len(indices) = 2

C20_Lines == splitLines(TextOf(subtask[1].reply), <<>>)

\* field is the cleaned text of some line of the reply that contains marker,
\* or the fallback when no line contains it
C20_FromMarkerLine(field, marker, fallback) ==
    IF \E k \in 1..Len(C20_Lines) : Includes(C20_Lines[k], marker)
    THEN \E k \in 1..Len(C20_Lines) :
            Includes(C20_Lines[k], marker) /\ field = CleanLine(C20_Lines[k])
    ELSE field = fallback

\* C20: in a 200 response of the suggest handler, shortTerm is the cleaned text
\* of a line of the AI reply that contains "short-term" and longTerm that of a
\* line that contains "long-term", in whatever order the lines appear; a field
\* whose marker is on no line is its fixed fallback.
C20_FieldsFollowMarkers ==
    (route = "suggest" /\ Answered(200)) =>
        /\ C20_FromMarkerLine(responses[1].data.shortTerm, "short-term",
                              <<"Short-term insight unavailable.">>)
        /\ C20_FromMarkerLine(responses[1].data.longTerm, "long-term",
                              <<"Long-term insight unavailable.">>)

\* C24: in the quote handler the metadata request is issued only after the
\* snapshot request has returned successfully; a failed metadata request fails
\* the quote even when a non-empty snapshot was obtained, with 404 when its
\* status is 404 and 500 otherwise; a 200 Quote needs both calls to succeed.
C24_MetadataAfterSnapshot ==
    route = "quote" =>
        /\ \A k \in 1..Len(calls) :
              calls[k].api = "meta" =>
                 k = 2 /\ calls[1].api = "snapshot" /\ snapshot.ok /\ pc # "awaitSnapshot"
        /\ (pc = "done" /\ snapshot.ok /\ ~upstream.ok) =>
              /\ Len(responses) = 1
              /\ responses[1].status = IF upstream.status = 404 THEN 404 ELSE 500
        /\ Answered(200) => snapshot.ok /\ upstream.ok /\ Len(calls) = 2

C24_Witness ==
    /\ route = "quote" /\ pc = "done"
    /\ snapshot.ok /\ snapshot.payload = "full"
    /\ ~upstream.ok /\ upstream.status = 404
    /\ responses[1].status = 404

C24_WitnessOther ==
    /\ route = "quote" /\ pc = "done"
    /\ snapshot.ok /\ snapshot.payload = "full"
    /\ ~upstream.ok /\ upstream.status = 500
    /\ responses[1].status = 500

C23_Names ==
    <<"Technology", "Healthcare", "Financials", "Energy", "Consumer Discretionary">>

C23_Bad(st) == st.state = "failed" \/ (st.state = "ok" /\ st.reply.kind = "noTicker")

\* C23: the sectors handler issues its five snapshot requests together, before
\* any of them has returned. It answers 200 only when all five succeeded with a
\* ticker payload, with exactly five entries in the fixed order of the sector
\* table; as soon as one request has failed or lacks the payload the answer is
\* 500, and no partial list is ever sent.
C23_AllOrNothing ==
    route = "sectors" =>
        /\ Len(calls) = 5
        /\ \A k \in 1..5 : calls[k].api = "snapshot" /\ calls[k].idx = k
        /\ Len(responses) <= 1
        /\ (\E k \in 1..5 : C23_Bad(subtask[k])) =>
              Len(responses) = 1 /\ responses[1].status = 500
        /\ (Len(responses) = 1 /\ responses[1].status = 200) =>
              /\ \A k \in 1..5 : subtask[k].state = "ok" /\ ~C23_Bad(subtask[k])
              /\ Len(responses[1].items) = 5
              /\ \A k \in 1..5 : responses[1].items[k].name = C23_Names[k]
        /\ (\A k \in 1..5 : subtask[k].state = "ok" /\ ~C23_Bad(subtask[k])) =>
              Len(responses) = 1 /\ responses[1].status = 200
        /\ responses # <<>> => responses[1].status \in {200, 500}

C23_Witness ==
    /\ route = "sectors" /\ pc = "done"
    /\ \E k \in 1..5 : /\ subtask[k].state = "ok" /\ subtask[k].reply.kind = "noTicker"
                       /\ \A j \in (1..5) \ {k} : subtask[j].reply.kind = "perc"
    /\ responses[1].status = 500

C23_WitnessAll ==
    /\ route = "sectors" /\ pc = "done"
    /\ responses[1].status = 200 /\ Len(responses[1].items) = 5

\* C22: a handler sends at most one response per request: once a response has
\* been sent, no later step of the handler (its catch block, a sub-task of a
\* Promise.all that settles afterwards) sends another or replaces it.
C22_AtMostOneResponse ==
    /\ [](Len(responses) <= 1)
    /\ [][responses # <<>> => responses' = responses]_vars

\* two sector requests were rejected, the second after the 500 had been sent
C22_Witness ==
    /\ route = "sectors" /\ pc = "done"
    /\ Cardinality({ k \in 1..5 : SectorRejected(subtask[k]) }) >= 2
    /\ Len(responses) = 1 /\ responses[1].status = 500

C22_WitnessQuote ==
    /\ route = "quote" /\ pc = "done" /\ snapshot.ok /\ snapshot.payload = "empty"
    /\ Len(responses) = 1 /\ responses[1].status = 404

\* C26: GET /api/news/top is handled by the top-news handler, whose upstream
\* query has no ticker filter, and every other single path segment after
\* /api/news/ is handled by the symbol handler with that segment as symbol.
C26_NewsRouting ==
    (IsNews /\ path # <<>>) =>
        IF path = <<"t", "o", "p">>
        THEN route = "newsTop" /\ calls[1].ticker = <<"none">>
        ELSE route = "newsSymbol" /\ symbol = path

\* C25: once every chart request of the detail page has completed, and the one
\* made for the selected period has succeeded, chartData is the response of
\* that request, whatever the order in which the responses arrived.
C25_LatestSelectionShown ==
    (/\ chartFetches # <<>>
     /\ \A k \in 1..Len(chartFetches) : chartFetches[k].state # "pending"
     /\ chartFetches[Len(chartFetches)].state = "ok") =>
        /\ chartData.request = Len(chartFetches)
        /\ chartData.period = selectedPeriod

C21_Response(st, items) == [status |-> st, items |-> items]

\* The status and the items a request gets from its own upstream replies alone.
C21_OwnResponse ==
    IF route = "search"
    THEN IF upstream.ok
         THEN C21_Response(200, IF upstream.results = <<"undefined">> THEN <<>>
                                ELSE upstream.results)
         ELSE IF upstream.status = 404 THEN C21_Response(200, <<>>)
         ELSE C21_Response(500, <<>>)
    ELSE IF ~upstream.ok THEN C21_Response(500, <<>>)
    ELSE IF upstream.results <= 0 THEN C21_Response(404, <<>>)
    ELSE C21_Response(200, [j \in 1..upstream.results |-> Analyze(j, subtask[j])])

====
